---- MODULE Spec2Model ----
(***************************************************************************)
(* A model of mensa.py: the scrape-parse-cache pipeline (update,           *)
(* parse_sw_site, write_to_file, check_for_updates) and the request        *)
(* handlers that read the cache (get_mensa, get_line, req2resp, the        *)
(* handle_* entry points).                                                 *)
(*                                                                         *)
(* Text that the program only compares for equality (canteen names, meal   *)
(* names, prices, tags) is a TLA+ string.  Text the program applies        *)
(* startswith/endswith to (short names, line names, queries) is a sequence *)
(* of one-character strings; a character outside ASCII is written as its   *)
(* code point, "U+00DF" for the sharp s of "Erzbergerstrasse".             *)
(*                                                                         *)
(* The program runs on one asyncio event loop: the code between two        *)
(* suspension points of a coroutine is one atomic step.  One action of the *)
(* model is one such step; every await of the source is a step boundary.   *)
(***************************************************************************)
EXTENDS Integers, Sequences, FiniteSets, TLC

VARIABLES DATA, META_DATA, DATA_LOCK, FILE_LOCK, storage, clock, task, resp

vars == <<DATA, META_DATA, DATA_LOCK, FILE_LOCK, storage, clock, task, resp>>

(***************************************************************************)
(* Values                                                                  *)
(***************************************************************************)
\* Python's None, as the value of META_DATA['last_update'] before the first
\* replace; a timestamp is a non-empty sequence
None == <<>>

EmptyDict == <<>>

Max(S) == CHOOSE m \in S : \A n \in S : n <= m

\* A Python dict built by assigning vs[i] to key ks[i] for i = 1, 2, ...:
\* a key assigned twice keeps the value assigned last.
DictOf(ks, vs) ==
    [k \in {ks[i] : i \in DOMAIN ks} |-> vs[Max({i \in DOMAIN ks : ks[i] = k})]]

\* str.startswith and str.endswith
startswith(s, q) == Len(q) <= Len(s) /\ SubSeq(s, 1, Len(q)) = q

endswith(s, q) == Len(q) <= Len(s) /\ SubSeq(s, Len(s) - Len(q) + 1, Len(s)) = q

(***************************************************************************)
(* Configuration (mensa.py, lines 14-34 and 85-96)                         *)
(***************************************************************************)
Adenauerring == <<"A","d","e","n","a","u","e","r","r","i","n","g">>

SHORTNAMES ==
    (Adenauerring :> "Mensa Am Adenauerring")
    @@ (<<"E","r","z","b","e","r","g","e","r","s","t","r","a","U+00DF","e">>
          :> "Mensa Erzbergerstra[U+00DF]e")
    @@ (<<"H","o","l","z","g","a","r","t","e","n","s","t","r","a","U+00DF","e">>
          :> "Mensa Holzgartenstra[U+00DF]e")
    @@ (<<"M","o","l","t","k","e","s","t","r","a","U+00DF","e">> :> "Mensa Moltke")
    @@ (<<"G","o","t","t","e","s","a","u","e">> :> "Mensa Schloss Gottesaue")
    @@ (<<"T","i","e","f","e","n","b","r","o","n","n","e","r","s","t","r","a","U+00DF","e">>
          :> "Mensa Tiefenbronnerstra[U+00DF]e")

ICON_TAGS ==
    ("vegetarian_2.gif" :> "veggi") @@ ("vegan_2.gif" :> "vegan")
    @@ ("s_2.gif" :> "schwein") @@ ("r_2.gif" :> "rind")
    @@ ("m_2.gif" :> "fisch") @@ ("bio_2.gif" :> "bio")

Linie1 == <<"L","i","n","i","e"," ","1">>
Linie2 == <<"L","i","n","i","e"," ","2">>
Linie3 == <<"L","i","n","i","e"," ","3">>
Linie45 == <<"L","i","n","i","e"," ","4","/","5">>
Schnitzelbar == <<"S","c","h","n","i","t","z","e","l","b","a","r">>
L6Update == <<"L","6"," ","U","p","d","a","t","e">>
Spaetausgabe ==
    <<"S","p","U+00E4","t","a","u","s","g","a","b","e"," ","u","n","d"," ",
      "A","b","e","n","d","e","s","s","e","n">>
Koeriwerk == <<"[","K","U+0153","r","i","]","w","e","r","k">>
HeisseTheke ==
    <<"C","a","f","e","t","e","r","i","a"," ","H","e","i","U+00DF","e"," ",
      "T","h","e","k","e">>
CafeteriaAb ==
    <<"C","a","f","e","t","e","r","i","a"," ","a","b"," ","1","4",":","3","0">>

LOGGED_LINES ==
    (Adenauerring :>
        <<Linie1, Linie2, Linie3, Linie45, Schnitzelbar, L6Update, Spaetausgabe,
          Koeriwerk, HeisseTheke, CafeteriaAb>>)

\* the byte range update() cuts out of the body before decoding it
CutFrom == 4930

CutTo == 5350

(***************************************************************************)
(* The page.  parse_sw_site reads the HTML through BeautifulSoup; the      *)
(* model keeps of a page what the parser's selectors can find in it:       *)
(*   canteen_divs  the div id="canteen_place_<d>", each with the digit <d> *)
(*                 and the texts of its h1 elements;                       *)
(*   menu_divs     the div id="fragment-c<d>-1", each with <d> and its     *)
(*                 class-less tr rows;                                     *)
(*   a row (ltr)   mensatype: <<text>> of its td class="mensatype", or    *)
(*                 <<>> without one; mtrs: its tr class="mt-<d>" sub-rows; *)
(*   a sub-row     b, price: text or NoTag; first: <<>>, or <<td>> for its *)
(*   (mtr)         td class="first", td.span the class-less span's text or *)
(*                 NoTag; imgs: the src of each img class="mealicon_2",    *)
(*                 as the sequence of its '/' parts.                       *)
(***************************************************************************)
NoTag == "NoTag"

Mtr(b, span, price, imgs) ==
    [b |-> b, first |-> <<[span |-> span]>>, price |-> price, imgs |-> imgs]

Icon(file) == <<"", "layout", "icons", file>>

\* img['src'].split('/')[-1]
FileOf(src) == src[Len(src)]

\* Mutant: the list of line 207 is taken as the tags, without the filter
\* of line 213.
TagsOfUnfiltered(imgs) ==
    [i \in DOMAIN imgs |->
        IF FileOf(imgs[i]) \in DOMAIN ICON_TAGS THEN ICON_TAGS[FileOf(imgs[i])]
        ELSE "None"]

\* mensa.py 207-208, 213: the tags of the icons ICON_TAGS knows, in order
RECURSIVE TagsOf(_)
TagsOf(imgs) ==
    IF imgs = <<>> THEN <<>>
    ELSE LET file == FileOf(Head(imgs))
         IN  (IF file \in DOMAIN ICON_TAGS THEN <<ICON_TAGS[file]>> ELSE <<>>)
             \o TagsOf(Tail(imgs))

\* Mutant: a missing price span is tolerated (the price is None).
MealFailsWithoutName(mtr) == mtr.first = <<>> \/ mtr.b = NoTag

\* mensa.py 205-214: a sub-row that lacks its first cell, its bold name or
\* its price span makes find() return None, and the attribute access on it
\* raises AttributeError
MealFails(mtr) == mtr.first = <<>> \/ mtr.b = NoTag \/ mtr.price = NoTag

MealOf(mtr) ==
    [name |-> mtr.b,
     note |-> IF mtr.first[1].span # NoTag THEN mtr.first[1].span ELSE "",
     price |-> mtr.price,
     tags |-> TagsOf(mtr.imgs)]

\* Mutant: meals.insert(0, ...) instead of meals.append(...).
MealsOfReversed(ltr) ==
    [i \in DOMAIN ltr.mtrs |-> MealOf(ltr.mtrs[Len(ltr.mtrs) + 1 - i])]

\* mensa.py 203-214: the meals of one line row, in source order
MealsOf(ltr) == [i \in DOMAIN ltr.mtrs |-> MealOf(ltr.mtrs[i])]

\* mensa.py 197-215: the rows with a mensatype cell, then name -> meals
NamedRows(div) == SelectSeq(div.trs, LAMBDA ltr : ltr.mensatype # <<>>)

LinesOf(div) ==
    LET rows == NamedRows(div)
    IN  DictOf([i \in DOMAIN rows |-> rows[i].mensatype[1]],
               [i \in DOMAIN rows |-> MealsOf(rows[i])])

\* mensa.py 190-192: canteen digit -> h1 text
CanteensOf(page) ==
    DictOf([i \in DOMAIN page.canteen_divs |-> page.canteen_divs[i].id],
           [i \in DOMAIN page.canteen_divs |-> page.canteen_divs[i].h1[1]])

NoError == "NoError"

\* the exception parse_sw_site raises on the page, or NoError
ParseError(page) ==
    IF \E i \in DOMAIN page.canteen_divs : page.canteen_divs[i].h1 = <<>>
    THEN "IndexError"
    ELSE
    LET bad(div) ==
            IF \E i \in DOMAIN NamedRows(div) :
                  \E j \in DOMAIN NamedRows(div)[i].mtrs :
                      MealFails(NamedRows(div)[i].mtrs[j])
            THEN "AttributeError"
            ELSE IF div.id \notin DOMAIN CanteensOf(page) THEN "KeyError"
            ELSE NoError
        failing == {i \in DOMAIN page.menu_divs : bad(page.menu_divs[i]) # NoError}
    IN  IF failing = {} THEN NoError
        ELSE bad(page.menu_divs[CHOOSE i \in failing : \A j \in failing : i <= j])

\* mensa.py 189-217, on what BeautifulSoup finds in the text
parse_page(page) ==
    IF ParseError(page) # NoError
    THEN [ok |-> FALSE, exc |-> ParseError(page)]
    ELSE [ok |-> TRUE,
          value |->
            DictOf([i \in DOMAIN page.menu_divs |->
                        CanteensOf(page)[page.menu_divs[i].id]],
                   [i \in DOMAIN page.menu_divs |-> LinesOf(page.menu_divs[i])])]

(***************************************************************************)
(* Time.  A datetime is the number of hours since midnight of day 0; clock *)
(* is the wall clock, which datetime.now() reads.                          *)
(***************************************************************************)
HoursPerDay == 24

\* the last hour of the wall clock the model follows
MaxClock == 8

\* datetime.isoformat(): date, 'T', time of day
isoformat(dt) == <<dt \div HoursPerDay, "T", dt % HoursPerDay>>

\* date.isoformat()
date_isoformat(dt) == <<dt \div HoursPerDay>>

\* rrule.rrule(rrule.DAILY, byhour=(1, 7, 10))
ByHour == {1, 7, 10}

\* the first occurrence of the rule at or after dt
rrule_from(dt) ==
    CHOOSE t \in dt..(dt + HoursPerDay) :
        /\ t % HoursPerDay \in ByHour
        /\ \A u \in dt..(t - 1) : u % HoursPerDay \notin ByHour

\* timedelta.seconds of next_dt - now, where now is datetime.now() read in
\* the hour now: the difference modulo one day.  The clock is read after
\* next_dt was computed, so a next_dt of the hour now lies behind it and
\* the difference is the rest of a day.
seconds(next_dt, now) ==
    IF (next_dt - now) % HoursPerDay = 0 THEN HoursPerDay
    ELSE (next_dt - now) % HoursPerDay

(***************************************************************************)
(* The bodies the site can answer with.  A body is its length in bytes,    *)
(* the offsets of the bytes that are not valid UTF-8, and the text its     *)
(* remaining bytes spell.                                                  *)
(***************************************************************************)
\* mensa.py 107: strange_bytes[:4930] + strange_bytes[5350:]
Excise(body) ==
    [body EXCEPT
        !.len = IF body.len <= CutFrom THEN body.len
                ELSE IF body.len <= CutTo THEN CutFrom
                ELSE body.len - (CutTo - CutFrom),
        !.invalid = {o \in body.invalid : o < CutFrom}
                    \cup {o - (CutTo - CutFrom) : o \in {x \in body.invalid : x >= CutTo}}]

\* mensa.py 108: bytes.decode('utf8') raises UnicodeDecodeError on an invalid byte
Decodes(bytes) == bytes.invalid = {}

\* Mutant: only server errors count as failures.
StatusOkBelow500(status) == status < 500

\* mensa.py 103
StatusOk(status) == status < 300

Meal1 == Mtr("Linseneintopf", "mit Brot", "2,60", <<Icon("vegan_2.gif")>>)
Meal2 == Mtr("Schnitzel", NoTag, "3,20", <<Icon("s_2.gif"), Icon("x_2.gif"), Icon("bio_2.gif")>>)
Meal3 == Mtr("Seelachs", NoTag, "3,05", <<Icon("m_2.gif")>>)
Meal4 == Mtr("Pasta", "al forno", "2,10", <<>>)
MealNoPrice == Mtr("Suppe", NoTag, NoTag, <<>>)

Ltr(name, mtrs) == [mensatype |-> <<name>>, mtrs |-> mtrs]

\* a class-less row that is no line: no mensatype cell
PlainRow == [mensatype |-> <<>>, mtrs |-> <<MealNoPrice>>]

\* every configured line of the default canteen, and a second canteen
PageFull ==
    [canteen_divs |-> << [id |-> "1", h1 |-> <<"Mensa Am Adenauerring">>],
                         [id |-> "2", h1 |-> <<"Mensa Schloss Gottesaue">>] >>,
     menu_divs |->
        << [id |-> "1",
            trs |-> << Ltr(Linie1, <<Meal1, Meal2>>), PlainRow, Ltr(Linie2, <<Meal3>>),
                       Ltr(Linie3, <<>>), Ltr(Linie45, <<Meal4>>),
                       Ltr(Schnitzelbar, <<Meal2>>), Ltr(L6Update, <<Meal1>>),
                       Ltr(Spaetausgabe, <<>>), Ltr(Koeriwerk, <<Meal2>>),
                       Ltr(HeisseTheke, <<Meal3>>), Ltr(CafeteriaAb, <<>>) >>],
           [id |-> "2", trs |-> << Ltr(Linie1, <<Meal4>>) >>] >>]

\* another day: one canteen, fewer lines
PageDay2 ==
    [canteen_divs |-> << [id |-> "1", h1 |-> <<"Mensa Am Adenauerring">>] >>,
     menu_divs |->
        << [id |-> "1",
            trs |-> << Ltr(Linie1, <<Meal3>>), Ltr(Schnitzelbar, <<Meal2, Meal4>>) >>] >>]

\* a meal sub-row without its price span
PageBad ==
    [canteen_divs |-> << [id |-> "1", h1 |-> <<"Mensa Am Adenauerring">>] >>,
     menu_divs |->
        << [id |-> "1", trs |-> << Ltr(Linie1, <<Meal1, MealNoPrice>>) >>] >>]

\* a page without the markers the parser looks for
PageNone == [canteen_divs |-> <<>>, menu_divs |-> <<>>]

\* no text
NoText == PageNone

\* a text is given by what the parser's selectors find in it
Body(invalid, html) == [len |-> 20000, invalid |-> invalid, text |-> html]

\* the known corruption lies inside the excised range; one body has an
\* invalid byte right behind it
Responses ==
    { [status |-> 200, body |-> Body({4990, 5012}, PageFull)],
      [status |-> 200, body |-> Body({4990, 5012}, PageDay2)],
      [status |-> 200, body |-> Body({4990, 5012}, PageBad)],
      [status |-> 200, body |-> Body({4990, 5012, 5350}, PageFull)],
      [status |-> 404, body |-> Body({}, PageNone)] }

(***************************************************************************)
(* Pages for the parser: every page made of up to two canteen containers,  *)
(* one or two menu fragments, and in the first fragment a row of line      *)
(* "Linie 1" with up to MaxMeals sub-rows, alone or with another row.      *)
(***************************************************************************)
\* the most meal sub-rows of the row
MaxMeals == 2

\* the sequences over S of length at most n
RECURSIVE SeqsUpTo(_, _)
SeqsUpTo(S, n) ==
    IF n = 0 THEN {<<>>}
    ELSE SeqsUpTo(S, n - 1) \cup {Append(q, x) : q \in SeqsUpTo(S, n - 1), x \in S}

MealNoName == Mtr(NoTag, "kalt", "1,00", <<Icon("bio_2.gif")>>)

\* sub-rows with and without note, with known and unknown icons, and
\* without a required element
GenMeals == {Meal1, Meal2, Meal4, MealNoPrice, MealNoName}

SubRows == SeqsUpTo(GenMeals, MaxMeals)

\* the rows of the first fragment: the row alone, after a row without
\* line-name cell, before the row of another line, before a second row of
\* the same line
GenRows ==
    UNION {{ <<Ltr(Linie1, mtrs)>>,
             <<PlainRow, Ltr(Linie1, mtrs)>>,
             <<Ltr(Linie1, mtrs), Ltr(Linie2, <<Meal3>>)>>,
             <<Ltr(Linie1, mtrs), Ltr(Linie1, <<Meal3>>)>> } : mtrs \in SubRows}

Container1 == [id |-> "1", h1 |-> <<"Mensa Am Adenauerring">>]
Container2 == [id |-> "2", h1 |-> <<"Mensa Schloss Gottesaue">>]
Container2Moltke == [id |-> "2", h1 |-> <<"Mensa Moltke">>]
Fragment2 == [id |-> "2", trs |-> << Ltr(Linie1, <<Meal4>>) >>]

GenContainers ==
    { <<Container1>>, <<Container1, Container2>>, <<Container2Moltke, Container1>> }

GenPages ==
    {[canteen_divs |-> cs, menu_divs |-> fs] :
        cs \in GenContainers,
        fs \in UNION {{ <<[id |-> "1", trs |-> trs]>>,
                        <<[id |-> "1", trs |-> trs], Fragment2>> } : trs \in GenRows}}

ParseResponses == {[status |-> 200, body |-> Body({4990, 5012}, page)] : page \in GenPages}

(***************************************************************************)
(* The cache and the history store                                         *)
(***************************************************************************)
\* Mutant: a deep merge, which keeps the lines of the old canteen that the
\* new one does not name.
DictUpdateDeep(old, new) ==
    [k \in DOMAIN old \cup DOMAIN new |->
        IF k \in DOMAIN new /\ k \in DOMAIN old
        THEN [l \in DOMAIN old[k] \cup DOMAIN new[k] |->
                IF l \in DOMAIN new[k] THEN new[k][l] ELSE old[k][l]]
        ELSE IF k \in DOMAIN new THEN new[k] ELSE old[k]]

\* Mutant: setdefault, which leaves a canteen the cache already holds.
DictUpdateKeepOld(old, new) ==
    [k \in DOMAIN old \cup DOMAIN new |-> IF k \in DOMAIN old THEN old[k] ELSE new[k]]

\* dict.update: every key of new is overwritten or added, the others stay
DictUpdate(old, new) ==
    [k \in DOMAIN old \cup DOMAIN new |-> IF k \in DOMAIN new THEN new[k] ELSE old[k]]

\* mensa.py 144-162
initalize_storage(tdb) ==
    [tdb EXCEPT
        !.tables = @ \cup {"metadata", "history"},
        !.metadata = @ \o << [key |-> "line_order", value |-> LOGGED_LINES[Adenauerring]],
                             [key |-> "attr_order",
                              value |-> <<"name", "note", "price", "tags">>] >>]

\* meta.get(Query().key == key)['value']
MetaValue(tdb, key) ==
    tdb.metadata[CHOOSE i \in DOMAIN tdb.metadata :
                    /\ tdb.metadata[i].key = key
                    /\ \A j \in 1..(i - 1) : tdb.metadata[j].key # key].value

\* mensa.py 123-141: an exception inside the try block is printed, and
\* nothing is inserted
write_to_file(tdb, data, today) ==
    LET st == IF "metadata" \notin tdb.tables THEN initalize_storage(tdb) ELSE tdb
        line_order == MetaValue(st, "line_order")
        attr_order == MetaValue(st, "attr_order")
        name == SHORTNAMES[Adenauerring]
        raises == \/ name \notin DOMAIN data
                  \/ \E i \in DOMAIN line_order : line_order[i] \notin DOMAIN data[name]
        mensa == data[name]
    IN  IF raises THEN st
        ELSE [st EXCEPT
                !.history = @ \o
                    << [date |-> date_isoformat(today),
                        meals |->
                          [l \in DOMAIN line_order |->
                            [m \in DOMAIN mensa[line_order[l]] |->
                              [a \in DOMAIN attr_order |->
                                mensa[line_order[l]][m][attr_order[a]]]]]] >>]

(***************************************************************************)
(* The resolvers and the responses                                         *)
(***************************************************************************)
Return(val) == [kind |-> "return", exc |-> "", msg |-> "", val |-> val]

Raise(exc, msg) == [kind |-> "raise", exc |-> exc, msg |-> msg, val |-> <<>>]

\* Mutant: "query in short" instead of short.startswith(query).
MensaMatchesContains(query) ==
    {SHORTNAMES[short] : short \in {k \in DOMAIN SHORTNAMES :
        \E i \in 0..(Len(k) - Len(query)) : SubSeq(k, i + 1, i + Len(query)) = query}}

\* mensa.py 227-228
MensaMatches(query) ==
    {SHORTNAMES[short] : short \in {k \in DOMAIN SHORTNAMES : startswith(k, query)}}

\* mensa.py 225-235; DATA[name] raises KeyError when the cache has no such key
get_mensa(data, query) ==
    LET matches == MensaMatches(query)
    IN  IF matches = {} THEN Raise("ValueError", "Unkown Mensa")
        ELSE IF Cardinality(matches) = 1
        THEN LET name == CHOOSE n \in matches : TRUE
             IN  IF name \in DOMAIN data THEN Return(data[name])
                 ELSE Raise("KeyError", name)
        ELSE Raise("ValueError", "Ambiguous short name")

\* Mutant: startswith instead of endswith.
LineMatchesPrefix(mdata, lquery) == {line \in DOMAIN mdata : startswith(line, lquery)}

\* mensa.py 241-242
LineMatches(mdata, lquery) == {line \in DOMAIN mdata : endswith(line, lquery)}

\* mensa.py 238-249
get_line(data, mquery, lquery) ==
    LET got == get_mensa(data, mquery)
    IN  IF got.kind = "raise" THEN got
        ELSE LET matches == LineMatches(got.val, lquery)
             IN  IF matches = {} THEN Raise("ValueError", "Unkown Line")
                 ELSE IF Cardinality(matches) = 1
                 THEN Return(got.val[CHOOSE l \in matches : TRUE])
                 ELSE Raise("ValueError", "Ambiguous short name")

\* mensa.py 266-270
format_meal(meal) ==
    << meal.name \o (IF meal.note # "" THEN " (" \o meal.note \o ")" ELSE ""),
       meal.tags, meal.price >>

\* mensa.py 260-263: one table row per meal
format_line(line) == Return([i \in DOMAIN line |-> format_meal(line[i])])

\* mensa.py 252-257: zip(*data.items()) of an empty dict cannot be unpacked
\* into names and food (ValueError); a line with an empty table is left out
format_mensa(mensa) ==
    IF DOMAIN mensa = {} THEN Raise("ValueError", "not enough values to unpack")
    ELSE Return([l \in {n \in DOMAIN mensa : mensa[n] # <<>>} |->
                    format_line(mensa[l]).val])

Formats == {"json", "text"}

\* mensa.py 295-301, with formatted the outcome of formatter(data), which
\* only the plain-text branch evaluates
data2resp(data, fmt, formatted) ==
    IF fmt = "json" THEN Return([content_type |-> "application/json", body |-> data])
    ELSE IF formatted.kind = "raise" THEN formatted
    ELSE Return([content_type |-> "text/plain", body |-> formatted.val])

\* mensa.py 281-292 between acquire and release, with got the outcome of
\* data_getter(*query) and formatted that of formatter(data): a ValueError
\* of the getter becomes the error response, any other exception leaves
\* the handler
req2resp(got, fmt, formatted) ==
    IF got.kind = "raise" /\ got.exc = "ValueError"
    THEN Return([content_type |-> "text/plain", body |-> <<"ERROR", got.msg>>])
    ELSE IF got.kind = "raise" THEN got
    ELSE data2resp(got.val, fmt, formatted)

(***************************************************************************)
(* Inputs                                                                  *)
(***************************************************************************)
\* the longest prefix of a short name, and suffix of a line name, asked for
MaxQueryLen == 1

Prefixes(s, n) == {SubSeq(s, 1, k) : k \in 0..(IF n < Len(s) THEN n ELSE Len(s))}

Suffixes(s, n) ==
    {SubSeq(s, Len(s) - k + 1, Len(s)) : k \in 0..(IF n < Len(s) THEN n ELSE Len(s))}

\* prefixes of the short names, the full default name, and queries that
\* are no prefix of any: wrong case, unknown second letter, a canonical name
MensaQueries ==
    UNION {Prefixes(k, MaxQueryLen) : k \in DOMAIN SHORTNAMES}
    \cup {Adenauerring, <<"a">>, <<"A", "x">>, <<"M", "e", "n", "s", "a">>}

\* suffixes of line names, a full line name, and a query that ends none
LineQueries ==
    UNION {Suffixes(l, MaxQueryLen) : l \in {Linie1, Linie45, L6Update, HeisseTheke}}
    \cup {Linie1, <<"9">>}

\* the requests that run beside the update cycles
FewMensaQueries == {<<>>, <<"A">>, <<"G">>}

FewLineQueries == {<<"1">>, <<"e">>}

(***************************************************************************)
(* State                                                                   *)
(*   DATA, META_DATA, DATA_LOCK, FILE_LOCK   the module globals            *)
(*   storage   the TinyDB file                                             *)
(*   clock     the wall clock                                              *)
(*   task      check_for_updates: where it stands, its rule iterator, and  *)
(*             updates, the update() calls in progress, each with its      *)
(*             locals and the cache as it was when the call began          *)
(*   resp      the response sent last, with the request it answers         *)
(***************************************************************************)
\* mensa.py 173-217
\* mensa.py 173-217: BeautifulSoup(html, 'html.parser') and the selectors give
\* the page, from which the mapping is built
parse_sw_site(html) == parse_page(html)

\* the hours at which the process is started: before the first hour of
\* the rule, and in one of its hours
StartClocks == {0, 7}

NoResponse == [status |-> 0, body |-> Body({}, NoText)]

NewUpdate(cycle, now) ==
    [cycle |-> cycle, now |-> now, pc |-> "fetch", response |-> NoResponse,
     html |-> NoText, data |-> EmptyDict, exc |-> NoError,
     before |-> [DATA |-> DATA, META_DATA |-> META_DATA]]

NoUpdate == [NewUpdate(0, 0) EXCEPT !.pc = "none",
                !.before = [DATA |-> EmptyDict, META_DATA |-> [last_update |-> None]]]

\* what a response keeps of the outcome of its data_getter
NoGot == [kind |-> "none", exc |-> "", msg |-> ""]

Init ==
    /\ DATA = EmptyDict
    /\ META_DATA = [last_update |-> None]
    /\ DATA_LOCK = FALSE
    /\ FILE_LOCK = FALSE
    /\ storage = [tables |-> {}, metadata |-> <<>>, history |-> <<>>]
    /\ clock \in StartClocks
    /\ task = [pc |-> "startup", cycles |-> 0, next_dt |-> -1, wake |-> 0,
               updates |-> {}, done |-> NoUpdate]
    /\ resp = [handler |-> "none", query |-> <<>>, fmt |-> "",
               got |-> NoGot, status |-> 0, content_type |-> "", body |-> [none |-> ""]]

(***************************************************************************)
(* update(now), mensa.py 99-120.  Its steps end at its awaits: the fetch   *)
(* (101-104), the two context exits (before 112), DATA_LOCK.acquire (114)  *)
(* and FILE_LOCK.acquire (118).                                            *)
(***************************************************************************)
\* the call ends: its locals are gone, its outcome is what the awaiting
\* task sees
Finish(u, v) ==
    task' = [task EXCEPT !.updates = @ \ {u},
                         !.done = [v EXCEPT !.html = NoText, !.data = EmptyDict]]

Step(u, v) == task' = [task EXCEPT !.updates = (@ \ {u}) \cup {v}]

\* 102-110: the response arrives; a status of 300 or more returns, an
\* undecodable body raises UnicodeDecodeError out of update
FetchReturn(u, r) ==
    /\ u.pc = "fetch"
    /\ IF ~StatusOk(r.status)
       THEN Finish(u, [u EXCEPT !.response = r, !.pc = "returned"])
       ELSE IF ~Decodes(Excise(r.body))
       THEN Finish(u, [u EXCEPT !.response = r, !.pc = "raised",
                                !.exc = "UnicodeDecodeError"])
       ELSE Step(u, [u EXCEPT !.response = r, !.html = Excise(r.body).text,
                              !.pc = "parse"])
    /\ UNCHANGED <<DATA, META_DATA, DATA_LOCK, FILE_LOCK, storage, clock, resp>>

\* 112: an exception of parse_sw_site leaves update
Parse(u) ==
    /\ u.pc = "parse"
    /\ LET parsed == parse_sw_site(u.html)
       IN  IF parsed.ok
           THEN Step(u, [u EXCEPT !.data = parsed.value, !.pc = "replace"])
           ELSE Finish(u, [u EXCEPT !.pc = "raised", !.exc = parsed.exc])
    /\ UNCHANGED <<DATA, META_DATA, DATA_LOCK, FILE_LOCK, storage, clock, resp>>

\* Mutant: the cache is written, the timestamp is not.
ReplaceWithoutTimestamp(u) ==
    /\ u.pc = "replace"
    /\ ~DATA_LOCK
    /\ DATA' = DictUpdate(DATA, u.data)
    /\ Step(u, [u EXCEPT !.pc = "write"])
    /\ UNCHANGED <<META_DATA, DATA_LOCK, FILE_LOCK, storage, clock, resp>>

\* 114-117: the lock is taken, the cache and the timestamp written, the
\* lock released, with no await in between
Replace(u) ==
    /\ u.pc = "replace"
    /\ ~DATA_LOCK
    /\ DATA' = DictUpdate(DATA, u.data)
    /\ META_DATA' = [META_DATA EXCEPT !.last_update = isoformat(u.now)]
    /\ Step(u, [u EXCEPT !.pc = "write"])
    /\ UNCHANGED <<DATA_LOCK, FILE_LOCK, storage, clock, resp>>

\* Mutant: when no record could be inserted, the cycle puts the cache back
\* as it found it.
WriteToFileRollback(u) ==
    /\ u.pc = "write"
    /\ ~FILE_LOCK
    /\ storage' = write_to_file(storage, u.data, clock)
    /\ IF storage'.history = storage.history
       THEN DATA' = u.before.DATA /\ META_DATA' = u.before.META_DATA
       ELSE UNCHANGED <<DATA, META_DATA>>
    /\ Finish(u, [u EXCEPT !.pc = "returned"])
    /\ UNCHANGED <<DATA_LOCK, FILE_LOCK, clock, resp>>

\* 118-120
WriteToFile(u) ==
    /\ u.pc = "write"
    /\ ~FILE_LOCK
    /\ storage' = write_to_file(storage, u.data, clock)
    /\ Finish(u, [u EXCEPT !.pc = "returned"])
    /\ UNCHANGED <<DATA, META_DATA, DATA_LOCK, FILE_LOCK, clock, resp>>

(***************************************************************************)
(* check_for_updates, mensa.py 165-170, the one task start_background_tasks*)
(* creates (324-325)                                                       *)
(***************************************************************************)
\* 167: update(datetime.datetime.now()) begins and runs up to its fetch
Startup ==
    /\ task.pc = "startup"
    /\ task' = [task EXCEPT !.pc = "await", !.cycles = 1,
                            !.updates = @ \cup {NewUpdate(1, clock)}]
    /\ UNCHANGED <<DATA, META_DATA, DATA_LOCK, FILE_LOCK, storage, clock, resp>>

\* Mutant: the call is started as a task of its own and not awaited.
update_not_awaited(t) == TRUE

\* 167, 170: "await update(...)" resumes the task when that call has ended
update_awaited(t) == t.updates = {}

\* 168-169: the call returned; the loop takes the next date of the rule
\* (created, with dtstart = now, when the loop is entered) and sleeps.  An
\* exception of the call ends the task.
Resume ==
    /\ task.pc = "await"
    /\ update_awaited(task)
    /\ IF task.done.pc = "raised"
       THEN task' = [task EXCEPT !.pc = "crashed"]
       ELSE LET next_dt == IF task.next_dt = -1 THEN rrule_from(clock)
                           ELSE rrule_from(task.next_dt + 1)
            IN  task' = [task EXCEPT !.pc = "sleep", !.next_dt = next_dt,
                                     !.wake = clock + seconds(next_dt, clock)]
    /\ UNCHANGED <<DATA, META_DATA, DATA_LOCK, FILE_LOCK, storage, clock, resp>>

\* 169-170: the sleep is over; update(next_dt) begins
Wake ==
    /\ task.pc = "sleep"
    /\ clock >= task.wake
    /\ task' = [task EXCEPT !.pc = "await", !.cycles = @ + 1,
                            !.updates = @ \cup {NewUpdate(task.cycles + 1, task.next_dt)}]
    /\ UNCHANGED <<DATA, META_DATA, DATA_LOCK, FILE_LOCK, storage, clock, resp>>

\* An hour passes while every coroutine is suspended: on the network, in
\* a sleep that is not over, or on a lock that is held.
Tick ==
    /\ clock < MaxClock
    /\ task.pc \notin {"startup"}
    /\ ~(task.pc = "sleep" /\ clock >= task.wake)
    /\ ~(task.pc = "await" /\ update_awaited(task))
    /\ \A u \in task.updates :
          \/ u.pc = "fetch"
          \/ u.pc = "replace" /\ DATA_LOCK
          \/ u.pc = "write" /\ FILE_LOCK
    /\ clock' = clock + 1
    /\ UNCHANGED <<DATA, META_DATA, DATA_LOCK, FILE_LOCK, storage, task, resp>>

(***************************************************************************)
(* The request handlers, mensa.py 220-222 and 278-321.  A handler that     *)
(* finds DATA_LOCK free runs from acquire to its response in one step.     *)
(***************************************************************************)
\* the response aiohttp sends for out, the outcome of the handler's body:
\* the response it built, or 500 for an exception that left the handler.
\* The body is kept under the name of what it holds.
Respond(handler, query, fmt, got, out) ==
    [handler |-> handler, query |-> query, fmt |-> fmt,
     got |-> [kind |-> got.kind, exc |-> got.exc, msg |-> got.msg],
     status |-> IF out.kind = "raise" THEN 500 ELSE 200,
     content_type |-> IF out.kind = "raise" THEN "text/plain" ELSE out.val.content_type,
     body |-> IF out.kind = "raise" THEN [exception |-> out.exc]
              ELSE IF got.kind = "raise" THEN [error |-> out.val.body]
              ELSE (handler \o ":" \o fmt) :> out.val.body]

\* 304-307
mensa_response(data, query, fmt) ==
    LET got == get_mensa(data, query)
    IN  req2resp(got, fmt, format_mensa(got.val))

handle_mensa_request(query, fmt) ==
    /\ ~DATA_LOCK
    /\ resp' = Respond("mensa", <<query>>, fmt, get_mensa(DATA, query),
                       mensa_response(DATA, query, fmt))
    /\ UNCHANGED <<DATA, META_DATA, DATA_LOCK, FILE_LOCK, storage, clock, task>>

\* 310-313
line_response(data, mquery, lquery, fmt) ==
    LET got == get_line(data, mquery, lquery)
    IN  req2resp(got, fmt, format_line(got.val))

handle_line_request(mquery, lquery, fmt) ==
    /\ ~DATA_LOCK
    /\ resp' = Respond("line", <<mquery, lquery>>, fmt, get_line(DATA, mquery, lquery),
                       line_response(DATA, mquery, lquery, fmt))
    /\ UNCHANGED <<DATA, META_DATA, DATA_LOCK, FILE_LOCK, storage, clock, task>>

\* 319: DATA['Mensa Am Adenauerring'], rendered
default_response(data, fmt) ==
    IF "Mensa Am Adenauerring" \in DOMAIN data
    THEN data2resp(data["Mensa Am Adenauerring"], fmt,
                   format_mensa(data["Mensa Am Adenauerring"]))
    ELSE Raise("KeyError", "Mensa Am Adenauerring")

\* Mutant: the handler makes sure the cache has the default canteen before
\* it reads it (DATA.setdefault).
handle_default_request_setdefault(fmt) ==
    /\ ~DATA_LOCK
    /\ DATA' = IF "Mensa Am Adenauerring" \in DOMAIN DATA THEN DATA
               ELSE DictUpdate(DATA, DictOf(<<"Mensa Am Adenauerring">>, <<EmptyDict>>))
    /\ resp' = Respond("default", <<>>, fmt, NoGot, default_response(DATA', fmt))
    /\ DATA_LOCK' = (default_response(DATA', fmt).kind = "raise")
    /\ UNCHANGED <<META_DATA, FILE_LOCK, storage, clock, task>>

\* 316-321: an exception of line 319 leaves the handler before line 320
\* releases the lock
handle_default_request(fmt) ==
    /\ ~DATA_LOCK
    /\ resp' = Respond("default", <<>>, fmt, NoGot, default_response(DATA, fmt))
    /\ DATA_LOCK' = (default_response(DATA, fmt).kind = "raise")
    /\ UNCHANGED <<DATA, META_DATA, FILE_LOCK, storage, clock, task>>

\* 220-222: no lock
handle_meta_request ==
    /\ resp' = Respond("meta", <<>>, "json", NoGot,
                       Return([content_type |-> "application/json", body |-> META_DATA]))
    /\ UNCHANGED <<DATA, META_DATA, DATA_LOCK, FILE_LOCK, storage, clock, task>>

Next ==
    \/ Startup
    \/ \E u \in task.updates : \E r \in Responses : FetchReturn(u, r)
    \/ \E u \in task.updates : Parse(u)
    \/ \E u \in task.updates : Replace(u)
    \/ \E u \in task.updates : WriteToFile(u)
    \/ Resume
    \/ Wake
    \/ Tick
    \/ \E q \in FewMensaQueries : \E fmt \in Formats : handle_mensa_request(q, fmt)
    \/ \E mq \in FewMensaQueries : \E lq \in FewLineQueries :
          handle_line_request(mq, lq, "json")
    \/ \E fmt \in Formats : handle_default_request(fmt)
    \/ handle_meta_request

\* The scheduler with its cycles over the hours, and requests at any moment.
Spec == Init /\ [][Next]_vars

\* the process started at midnight
InitAtMidnight == Init /\ clock = 0

\* The process up to the first sleep of check_for_updates (the wall clock
\* stands still), with every query of MensaQueries and LineQueries.
NextResolve ==
    \/ Startup
    \/ \E u \in task.updates : \E r \in Responses : FetchReturn(u, r)
    \/ \E u \in task.updates : Parse(u)
    \/ \E u \in task.updates : Replace(u)
    \/ \E u \in task.updates : WriteToFile(u)
    \/ Resume
    \/ \E q \in MensaQueries : \E fmt \in Formats : handle_mensa_request(q, fmt)
    \/ \E mq \in MensaQueries : \E lq \in LineQueries :
          handle_line_request(mq, lq, "json")

SpecResolve == InitAtMidnight /\ [][NextResolve]_vars

\* The first cycle on every page of GenPages.
NextParse ==
    \/ Startup
    \/ \E u \in task.updates : \E r \in ParseResponses : FetchReturn(u, r)
    \/ \E u \in task.updates : Parse(u)
    \/ \E u \in task.updates : Replace(u)
    \/ \E u \in task.updates : WriteToFile(u)
    \/ Resume

SpecParse == InitAtMidnight /\ [][NextParse]_vars

(***************************************************************************)
(* Properties                                                              *)
(***************************************************************************)
\* the response a handler gives to a request when the cache is data
ResponseOn(data, handler, query, fmt) ==
    CASE handler = "mensa" ->
            Respond("mensa", query, fmt, get_mensa(data, query[1]),
                    mensa_response(data, query[1], fmt))
      [] handler = "line" ->
            Respond("line", query, fmt, get_line(data, query[1], query[2]),
                    line_response(data, query[1], query[2], fmt))
      [] handler = "default" ->
            Respond("default", query, fmt, NoGot, default_response(data, fmt))

\* what parse_sw_site returns for the texts the site can answer with
Snapshots ==
    {parse_sw_site(r.body.text).value :
        r \in {x \in Responses : parse_sw_site(x.body.text).ok}}

\* the cycle v could not fetch, decode or parse
CycleFailed(v) ==
    \/ v.response.status >= 300
    \/ Excise(v.response.body).invalid # {}
    \/ ~parse_sw_site(Excise(v.response.body).text).ok

DataHandlers == {"mensa", "line", "default"}

\* C1: a response built from cache data is the response the same request
\* gets from one parsed snapshot alone (no canteen mixes the lines of two
\* snapshots, and canteen and line are resolved against one cache state),
\* and the handler that builds it reads the cache as it is before or after
\* the step, which leaves the cache alone.
C1_SnapshotObserved ==
    /\ [](resp.handler \in DataHandlers /\ resp.status = 200 /\ resp.got.kind # "raise"
            => \E snap \in Snapshots :
                  resp = ResponseOn(snap, resp.handler, resp.query, resp.fmt))
    /\ [][resp' # resp /\ resp'.handler \in DataHandlers
            => /\ DATA' = DATA
               /\ resp' = ResponseOn(DATA, resp'.handler, resp'.query, resp'.fmt)]_vars

\* a line request answered, during the second cycle or a later one, from
\* the cache that cycle has just replaced
C1_Witness ==
    \E u \in task.updates :
        /\ u.cycle >= 2 /\ u.pc = "write" /\ u.before.DATA # DATA
        /\ resp.handler = "line" /\ resp.status = 200 /\ resp.got.kind = "return"
        /\ resp = ResponseOn(DATA, "line", resp.query, resp.fmt)
        /\ resp # ResponseOn(u.before.DATA, "line", resp.query, resp.fmt)

\* the update() calls that write the cache in this step
Merging == {u \in task.updates : u.pc = "replace" /\ [u EXCEPT !.pc = "write"] \in task'.updates}

\* C2: last_update is None exactly as long as no cycle has merged (the
\* cache is then empty and no call is past its replace), and every step
\* either is a replace, which writes the cache and sets last_update to the
\* timestamp of that cycle, or leaves both alone.
C2_TimestampWithData ==
    /\ [](META_DATA.last_update = None
            => /\ DATA = EmptyDict
               /\ \A u \in task.updates : u.pc # "write"
               /\ task.done.pc = "returned" => task.done.response.status >= 300)
    /\ [][IF Merging # {}
          THEN \E u \in Merging :
                  /\ DATA' = [k \in DOMAIN DATA \cup DOMAIN u.data |->
                                IF k \in DOMAIN u.data THEN u.data[k] ELSE DATA[k]]
                  /\ META_DATA' = [last_update |-> isoformat(u.now)]
          ELSE DATA' = DATA /\ META_DATA' = META_DATA]_vars

\* /meta answered with the timestamp of the first scheduled cycle, merged
C2_Witness ==
    /\ META_DATA.last_update = isoformat(1)
    /\ DATA # EmptyDict
    /\ resp.handler = "meta" /\ resp.body = ("meta:json" :> META_DATA)

\* C3: when the last cycle failed (status not below 300, undecodable body,
\* or parse failure), cache and timestamp are as they were when it began,
\* and a request handled then is answered from that cache.
C3_FailedCycleKeepsCache ==
    /\ [](task.updates = {} /\ task.done.pc # "none" /\ CycleFailed(task.done)
            => /\ DATA = task.done.before.DATA
               /\ META_DATA = task.done.before.META_DATA)
    /\ [][/\ task.updates = {} /\ task.done.pc # "none" /\ CycleFailed(task.done)
          /\ resp' # resp /\ resp'.handler \in DataHandlers
          => resp' = ResponseOn(task.done.before.DATA, resp'.handler, resp'.query,
                                resp'.fmt)]_vars

\* after a good cycle a later cycle failed, and a request is answered from
\* the cache of the good one
C3_Witness ==
    /\ task.updates = {} /\ task.done.pc # "none" /\ CycleFailed(task.done)
    /\ task.done.cycle >= 2
    /\ task.done.before.DATA # EmptyDict
    /\ resp.handler = "mensa" /\ resp.status = 200 /\ resp.got.kind = "return"
    /\ resp = ResponseOn(task.done.before.DATA, "mensa", resp.query, resp.fmt)

\* C4 (as claimed): after a cycle that failed, check_for_updates is still
\* running.
C4_SchedulerSurvivesFailure ==
    (task.updates = {} /\ task.done.pc # "none" /\ CycleFailed(task.done))
        => task.pc # "crashed"

\* C5 (as claimed): once a cycle has replaced the cache, the cache is the
\* mapping parse_sw_site returned in that cycle.
C5_FullyReplaced == \A u \in task.updates : u.pc = "write" => DATA = u.data

\* C5 (amended): once a cycle has replaced the cache, every canteen of the
\* new snapshot is in the cache exactly as parsed, and every other canteen
\* of the cache is there as it was before the cycle.
C5_CanteensOverwritten ==
    \A u \in task.updates : u.pc = "write" =>
        /\ DOMAIN DATA = DOMAIN u.before.DATA \cup DOMAIN u.data
        /\ \A c \in DOMAIN u.data : DATA[c] = u.data[c]
        /\ \A c \in DOMAIN DATA \ DOMAIN u.data : DATA[c] = u.before.DATA[c]

\* a canteen of an earlier snapshot is still in the cache after a cycle
\* whose snapshot does not have it, and another canteen was overwritten
C5_Witness ==
    \E u \in task.updates :
        /\ u.pc = "write"
        /\ DOMAIN DATA \ DOMAIN u.data # {}
        /\ \E c \in DOMAIN u.data : c \in DOMAIN u.before.DATA /\ u.before.DATA[c] # DATA[c]

\* q is a prefix of k, and q is a suffix of l, character by character
IsPrefix(q, k) == Len(q) <= Len(k) /\ \A i \in 1..Len(q) : q[i] = k[i]

IsSuffix(q, l) == Len(q) <= Len(l) /\ \A i \in 1..Len(q) : q[i] = l[Len(l) - Len(q) + i]

\* the canonical names of the short names that start with q
NamesFor(q) == {SHORTNAMES[k] : k \in {x \in DOMAIN SHORTNAMES : IsPrefix(q, x)}}

NotFound(what) == [kind |-> "raise", exc |-> "ValueError", msg |-> "Unkown " \o what]

Ambiguous == [kind |-> "raise", exc |-> "ValueError", msg |-> "Ambiguous short name"]

ErrorResponse(r, cond) ==
    /\ r.got = cond
    /\ r.status = 200
    /\ r.body = [error |-> <<"ERROR", cond.msg>>]

\* C6 (as claimed): a resolver that does not return data raises ValueError,
\* which req2resp answers with the error response.
C6_TypedConditions ==
    (resp.handler \in {"mensa", "line"} /\ resp.got.kind = "raise")
        => resp.got.exc = "ValueError" /\ resp.status = 200

\* C7 (as claimed): a query that is a prefix of exactly one short name gets
\* the canteen the cache holds under that short name's canonical name.
C7_UniquePrefixResolves ==
    [][(resp' # resp /\ resp'.handler = "mensa"
            /\ Cardinality(NamesFor(resp'.query[1])) = 1)
        => /\ resp'.got.kind = "return"
           /\ resp'.fmt = "json" =>
                resp'.body = ("mensa:json" :>
                                DATA[CHOOSE n \in NamesFor(resp'.query[1]) : TRUE])]_vars

\* C8: a query that is a prefix of no short name is answered NotFound, one
\* that is a prefix of several (the empty query is) is answered Ambiguous,
\* and either answer is the same whatever the cache holds.
C8_MensaClassified ==
    resp.handler = "mensa" =>
        LET names == NamesFor(resp.query[1])
        IN  /\ names = {} => ErrorResponse(resp, NotFound("Mensa"))
            /\ Cardinality(names) > 1 => ErrorResponse(resp, Ambiguous)
            /\ resp.query[1] = <<>> => ErrorResponse(resp, Ambiguous)
            /\ NotFound("Mensa") # Ambiguous

\* the empty query is answered Ambiguous while the cache holds canteens
C8_Witness ==
    /\ resp.handler = "mensa" /\ resp.query = << <<>> >>
    /\ ErrorResponse(resp, Ambiguous)
    /\ DATA # EmptyDict

\* C9: when the canteen query resolves, the line query is classified by the
\* number of that canteen's line names that end with it: none NotFound,
\* one that line's meals, several Ambiguous; when the canteen query is
\* NotFound or Ambiguous, so is the answer.
C9_LineClassified ==
    [][(resp' # resp /\ resp'.handler = "line") =>
        LET names == NamesFor(resp'.query[1])
            name == CHOOSE n \in names : TRUE
            lines == {l \in DOMAIN DATA[name] : IsSuffix(resp'.query[2], l)}
        IN  IF names = {} THEN ErrorResponse(resp', NotFound("Mensa"))
            ELSE IF Cardinality(names) > 1 THEN ErrorResponse(resp', Ambiguous)
            ELSE name \in DOMAIN DATA =>
                    /\ lines = {} => ErrorResponse(resp', NotFound("Line"))
                    /\ Cardinality(lines) > 1 => ErrorResponse(resp', Ambiguous)
                    /\ Cardinality(lines) = 1 =>
                        /\ resp'.got.kind = "return" /\ resp'.status = 200
                        /\ resp'.fmt = "json" =>
                              resp'.body = ("line:json" :>
                                              DATA[name][CHOOSE l \in lines : TRUE])]_vars

\* "A" resolves to the default canteen, two of whose line names end with "e"
C9_Witness ==
    /\ resp.handler = "line" /\ resp.query = << <<"A">>, <<"e">> >>
    /\ "Mensa Am Adenauerring" \in DOMAIN DATA
    /\ ErrorResponse(resp, Ambiguous)

\* C10: at most one update() call is in progress at any moment.
C10_OneCycleAtATime == Cardinality(task.updates) <= 1

\* the startup cycle's fetch is still suspended when two scheduled hours
\* (1 and 7) have passed
C10_Witness ==
    \E u \in task.updates : u.pc = "fetch" /\ u.now = 0 /\ u.cycle = 1 /\ clock >= 7

\* the hours of the rule from hour a to hour b
ScheduledIn(a, b) == {t \in a..b : t % HoursPerDay \in ByHour}

\* no cycle beyond the startup cycle and one for each date the rule has
\* yielded: the call in progress is the last one begun, and a call after
\* the first carries the date slept for
NoExtraCycle ==
    /\ task.pc = "startup" <=> task.cycles = 0
    /\ task.pc = "sleep" => task.cycles >= 1 /\ task.updates = {}
    /\ \A u \in task.updates :
          /\ u.cycle = task.cycles
          /\ u.cycle >= 2 => u.now = task.next_dt

\* C11 (as claimed): check_for_updates runs one cycle at startup before it
\* sleeps, and then one cycle at each hour of the rule, in order and no
\* other: a sleep ends at the hour of the rule it is for, which is the first
\* one not yet passed, and after a cycle that failed no hour of the rule
\* passes without its cycle.
C11_OneCyclePerTick ==
    /\ NoExtraCycle
    /\ task.pc = "sleep" =>
          /\ task.wake = task.next_dt
          /\ ScheduledIn(clock, task.next_dt - 1) = {}
    /\ task.pc = "crashed" => ScheduledIn(task.done.now + 1, clock) = {}

\* the task sleeps a day for the date of the hour it was started in
C11_SleepsPastTick ==
    task.pc = "sleep" /\ task.cycles = 1 /\ task.wake = task.next_dt + HoursPerDay

\* the task has ended with an exception and an hour of the rule has passed
C11_TickAfterCrash ==
    task.pc = "crashed" /\ ScheduledIn(task.done.now + 1, clock) # {}

\* C12: a step in which a handler answers (or takes DATA_LOCK) leaves DATA
\* and META_DATA as they are, whether the resolver returned data, NotFound
\* or Ambiguous; a step that changes DATA or META_DATA is the replace step
\* of an update() call, and no handler answers in it.
C12_OnlyReplaceWrites ==
    [][/\ (resp' # resp \/ DATA_LOCK' # DATA_LOCK)
            => (DATA' = DATA /\ META_DATA' = META_DATA)
       /\ (DATA' # DATA \/ META_DATA' # META_DATA)
            => (Merging # {} /\ resp' = resp /\ DATA_LOCK' = DATA_LOCK)]_vars

\* a line request was answered NotFound or Ambiguous from the cache a cycle
\* has just replaced, and cache and timestamp are what that cycle wrote
C12_Witness ==
    \E u \in task.updates :
        /\ u.pc = "write"
        /\ DATA = DictUpdate(u.before.DATA, u.data) /\ DATA # u.before.DATA
        /\ META_DATA.last_update = isoformat(u.now)
        /\ resp.handler = "line" /\ resp.got.kind = "raise"
        /\ resp = ResponseOn(DATA, "line", resp.query, resp.fmt)
        /\ resp # ResponseOn(u.before.DATA, "line", resp.query, resp.fmt)

\* C13 (as claimed): the history table holds at most one record for a
\* calendar date.
C13_OneRecordPerDay ==
    \A i, j \in DOMAIN storage.history :
        storage.history[i].date = storage.history[j].date => i = j

\* the update() calls whose history write ends in this step
Logging == {u \in task.updates : u.pc = "write" /\ u \notin task'.updates}

AttrOrder == <<"name", "note", "price", "tags">>

\* reading the record back gives, line by line in the order of LOGGED_LINES
\* and meal by meal, the values of the snapshot's default canteen
ReadsBack(record, data) ==
    LET lines == LOGGED_LINES[Adenauerring]
        name == "Mensa Am Adenauerring"
    IN  /\ name \in DOMAIN data
        /\ DOMAIN record.meals = DOMAIN lines
        /\ \A l \in DOMAIN lines :
              /\ lines[l] \in DOMAIN data[name]
              /\ DOMAIN record.meals[l] = DOMAIN data[name][lines[l]]
              /\ \A m \in DOMAIN record.meals[l] :
                    record.meals[l][m] =
                        [a \in DOMAIN AttrOrder |-> data[name][lines[l]][m][AttrOrder[a]]]

\* the snapshot has the default canteen with every configured line
Loggable(data) ==
    /\ "Mensa Am Adenauerring" \in DOMAIN data
    /\ \A l \in DOMAIN LOGGED_LINES[Adenauerring] :
          LOGGED_LINES[Adenauerring][l] \in DOMAIN data["Mensa Am Adenauerring"]

\* the history grows by one record, which reads back as data
Appended(data) ==
    /\ Len(storage'.history) = Len(storage.history) + 1
    /\ SubSeq(storage'.history, 1, Len(storage.history)) = storage.history
    /\ ReadsBack(storage'.history[Len(storage'.history)], data)

\* C14 (as claimed): the step that ends the history write of a cycle (which
\* has replaced the cache) appends one record that reads back as that
\* cycle's snapshot and leaves the earlier records as they are; every other
\* step leaves the history as it is.
C14_RecordPerReplace ==
    [][IF Logging # {}
       THEN \E u \in Logging : Appended(u.data)
       ELSE storage'.history = storage.history]_vars

\* what the code keeps of it: the record is appended when the snapshot has
\* every configured line of the default canteen, and otherwise the history
\* stays as it is
C14_RecordWhenLoggable ==
    [][IF Logging # {}
       THEN \E u \in Logging :
                IF Loggable(u.data) THEN Appended(u.data)
                ELSE storage'.history = storage.history
       ELSE storage'.history = storage.history]_vars

\* a cycle has replaced the cache and ended, and the history has no record
C14_ReplacedNotLogged ==
    /\ task.updates = {} /\ task.done.pc = "returned"
    /\ task.done.response.status < 300
    /\ storage.history = <<>>

\* the update() calls that hold a parsed snapshot
Parsed == {u \in task.updates : u.pc \in {"replace", "write"}}

\* the display name of the container with digit d (of the last one, when
\* several have it)
ContainerName(page, d) ==
    page.canteen_divs[Max({i \in DOMAIN page.canteen_divs :
                              page.canteen_divs[i].id = d})].h1[1]

\* the fragments that are the last of their canteen, and the rows with a
\* line-name cell, and those that are the last of their line
LastFragments(page) ==
    {i \in DOMAIN page.menu_divs :
        \A j \in DOMAIN page.menu_divs :
            j > i => ContainerName(page, page.menu_divs[j].id)
                        # ContainerName(page, page.menu_divs[i].id)}

LineRows(div) == {r \in DOMAIN div.trs : div.trs[r].mensatype # <<>>}

LastRows(div) ==
    {r \in LineRows(div) :
        \A q \in LineRows(div) : q > r => div.trs[q].mensatype # div.trs[r].mensatype}

\* meals are the meals of the sub-rows of row, one each, in source order
HoldsSubRows(meals, row) ==
    /\ Len(meals) = Len(row.mtrs)
    /\ \A j \in DOMAIN row.mtrs :
          meals[j].name = row.mtrs[j].b /\ meals[j].price = row.mtrs[j].price

\* C15 (as claimed): the snapshot parsed from a page has as many canteen
\* keys as the page has canteen containers, and every line row of a
\* fragment is in it with one meal for each of its sub-rows, in source order.
C15_KeysAndMeals ==
    \A u \in Parsed :
        /\ Cardinality(DOMAIN u.data) = Len(u.html.canteen_divs)
        /\ \A i \in DOMAIN u.html.menu_divs :
              LET div == u.html.menu_divs[i]
                  lines == u.data[ContainerName(u.html, div.id)]
              IN  \A r \in LineRows(div) :
                      /\ div.trs[r].mensatype[1] \in DOMAIN lines
                      /\ HoldsSubRows(lines[div.trs[r].mensatype[1]], div.trs[r])

\* C15 (amended): the canteen keys of the snapshot are the display names of
\* the containers the menu fragments refer to; the lines of a canteen are
\* the line names of the rows with a line-name cell in its last fragment,
\* and no others; a line holds one meal for each sub-row of the last row
\* of its name, in source order.
C15_FragmentKeysAndMeals ==
    \A u \in Parsed :
        /\ DOMAIN u.data =
              {ContainerName(u.html, u.html.menu_divs[i].id) : i \in DOMAIN u.html.menu_divs}
        /\ \A i \in LastFragments(u.html) :
              LET div == u.html.menu_divs[i]
                  lines == u.data[ContainerName(u.html, div.id)]
              IN  /\ DOMAIN lines = {div.trs[r].mensatype[1] : r \in LineRows(div)}
                  /\ \A r \in LastRows(div) :
                        HoldsSubRows(lines[div.trs[r].mensatype[1]], div.trs[r])

\* two containers with a fragment each; the first fragment has a row
\* without line-name cell and a line with two sub-rows: two keys, one line
\* in the first canteen, two meals in it
C15_Witness ==
    \E u \in Parsed :
        /\ Len(u.html.canteen_divs) = 2 /\ Len(u.html.menu_divs) = 2
        /\ Len(u.html.menu_divs[1].trs) = 2
        /\ u.html.menu_divs[1].trs[1] = PlainRow
        /\ Len(u.html.menu_divs[1].trs[2].mtrs) = 2
        /\ u.html.menu_divs[1].trs[2].mtrs[1] # u.html.menu_divs[1].trs[2].mtrs[2]
        /\ Cardinality(DOMAIN u.data) = 2
        /\ DOMAIN u.data["Mensa Am Adenauerring"] = {Linie1}
        /\ Len(u.data["Mensa Am Adenauerring"][Linie1]) = 2

\* the file names of the icons of a sub-row that ICON_TAGS knows, in source
\* order
KnownIcons(mtr) ==
    SelectSeq([k \in DOMAIN mtr.imgs |-> mtr.imgs[k][Len(mtr.imgs[k])]],
              LAMBDA file : file \in DOMAIN ICON_TAGS)

\* the page has a sub-row, in a row with a line-name cell, that lacks its
\* first cell, bold name or price span
LacksRequired(page) ==
    \E i \in DOMAIN page.menu_divs :
        \E r \in LineRows(page.menu_divs[i]) :
            \E j \in DOMAIN page.menu_divs[i].trs[r].mtrs :
                LET mtr == page.menu_divs[i].trs[r].mtrs[j]
                IN  mtr.first = <<>> \/ mtr.b = NoTag \/ mtr.price = NoTag

\* the page has a fragment of a canteen without container, or a container
\* without heading
LacksCanteen(page) ==
    \/ \E i \in DOMAIN page.menu_divs :
          \A c \in DOMAIN page.canteen_divs :
              page.canteen_divs[c].id # page.menu_divs[i].id
    \/ \E c \in DOMAIN page.canteen_divs : page.canteen_divs[c].h1 = <<>>

\* C16: in a parsed snapshot the meal of a sub-row without note span has
\* the note "" (and otherwise the text of the span), and its tags are the
\* ICON_TAGS values of the sub-row's icon file names that are keys of
\* ICON_TAGS, in source order; a parse fails only on a page that lacks a
\* required element or a canteen, never for an icon.
C16_NoteAndTags ==
    /\ \A u \in Parsed :
          \A i \in LastFragments(u.html) :
              LET div == u.html.menu_divs[i]
                  lines == u.data[ContainerName(u.html, div.id)]
              IN  \A r \in LastRows(div) :
                      \A j \in DOMAIN div.trs[r].mtrs :
                          LET mtr == div.trs[r].mtrs[j]
                              meal == lines[div.trs[r].mensatype[1]][j]
                          IN  /\ mtr.first[1].span = NoTag => meal.note = ""
                              /\ mtr.first[1].span # NoTag => meal.note = mtr.first[1].span
                              /\ meal.tags = [k \in DOMAIN KnownIcons(mtr) |->
                                                ICON_TAGS[KnownIcons(mtr)[k]]]
    /\ task.done.pc = "raised" =>
          \/ LacksRequired(task.done.response.body.text)
          \/ LacksCanteen(task.done.response.body.text)

\* a sub-row without note span and with the icons s_2.gif, x_2.gif and
\* bio_2.gif, the second of which ICON_TAGS does not know
C16_Witness ==
    \E u \in Parsed :
        LET row == u.html.menu_divs[1].trs[1]
            meal == u.data["Mensa Am Adenauerring"][Linie1][1]
        IN  /\ Len(u.html.menu_divs[1].trs) = 1 /\ Len(row.mtrs) >= 1
            /\ row.mtrs[1].first[1].span = NoTag
            /\ row.mtrs[1].imgs = <<Icon("s_2.gif"), Icon("x_2.gif"), Icon("bio_2.gif")>>
            /\ meal.note = "" /\ meal.tags = <<"schwein", "bio">>

\* every meal of the mapping has a name and a price
Complete(data) ==
    \A c \in DOMAIN data : \A l \in DOMAIN data[c] : \A j \in DOMAIN data[c][l] :
        data[c][l][j].name # NoTag /\ data[c][l][j].price # NoTag

\* C17: a page on which a meal sub-row of a line lacks its bold name or its
\* price span gives no snapshot: the parse raises, the cycle ends without a
\* replace, and cache and timestamp are as they were when it began; every
\* snapshot a call holds and the cache are complete, and a replace merges
\* the snapshot of a page that lacks nothing.
C17_AllOrNothing ==
    /\ [](/\ \A u \in Parsed : ~LacksRequired(u.html) /\ Complete(u.data)
          /\ Complete(DATA)
          /\ (task.done.pc # "none" /\ LacksRequired(task.done.response.body.text))
                => /\ task.done.pc = "raised"
                   /\ task.done.exc = "AttributeError"
                   /\ DATA = task.done.before.DATA
                   /\ META_DATA = task.done.before.META_DATA)
    /\ [][\A u \in task.updates :
            (u.pc = "parse" /\ LacksRequired(u.html))
                => /\ DATA' = DATA /\ META_DATA' = META_DATA
                   /\ task'.updates \in {task.updates, task.updates \ {u}}]_vars

\* the first sub-row of a line is in order and the second lacks its price
\* span: the cycle has ended in the parser and the cache is still empty
C17_Witness ==
    LET page == task.done.response.body.text
    IN  /\ task.done.pc = "raised" /\ task.done.exc = "AttributeError"
        /\ Len(page.menu_divs) >= 1 /\ Len(page.menu_divs[1].trs) >= 1
        /\ page.menu_divs[1].trs[1].mtrs = <<Meal1, MealNoPrice>>
        /\ DATA = EmptyDict /\ META_DATA.last_update = None

\* C18 (as claimed): DATA_LOCK is never left held: whenever the step of a
\* coroutine has ended (in every state), whether its lookup or rendering
\* raised or not, the lock is free for the next replace or request.
C18_LockReleased == ~DATA_LOCK

\* "/" was requested while the cache was empty, and a cycle now waits for
\* the lock that nothing will release
C18_BlockedForever ==
    /\ DATA_LOCK /\ task.pc = "await"
    /\ \E u \in task.updates : u.pc = "replace"
    /\ resp.handler = "default" /\ resp.status = 500

\* C19 (as claimed): the lock is held for one uninterrupted step only, so
\* an update() call that has reached its replace step finds the lock free,
\* and no time passes while the lock is held.
C19_ReplaceNotDelayed ==
    /\ [](\A u \in task.updates : u.pc = "replace" => ~DATA_LOCK)
    /\ [][clock' # clock => ~DATA_LOCK]_vars

\* C20: an update() call that is at its history write has replaced the
\* cache (the cache holds its snapshot and META_DATA its timestamp) and has
\* released DATA_LOCK; the step of the history write leaves DATA and
\* META_DATA as they are, whether a record is inserted or, for a snapshot
\* without a configured line, none is; and the history changes in no other
\* step, so never before the replace.
C20_WriteAfterReplace ==
    /\ [](\A u \in task.updates : u.pc = "write" =>
            /\ \A c \in DOMAIN u.data : c \in DOMAIN DATA /\ DATA[c] = u.data[c]
            /\ META_DATA.last_update = isoformat(u.now)
            /\ ~DATA_LOCK)
    /\ [][/\ Logging # {} => (DATA' = DATA /\ META_DATA' = META_DATA
                                /\ DATA_LOCK' = DATA_LOCK)
          /\ storage' # storage => Logging # {}
          /\ \A u \in Logging :
                ~Loggable(u.data) => storage'.history = storage.history]_vars

\* the second cycle has merged a snapshot without the configured lines and
\* ended: the history still has the one record of the first cycle, and
\* cache and timestamp are what the second cycle wrote
C20_Witness ==
    /\ task.updates = {} /\ task.done.pc = "returned" /\ task.done.cycle = 2
    /\ task.done.response.status < 300
    /\ ~Loggable(parse_sw_site(task.done.response.body.text).value)
    /\ Len(storage.history) = 1
    /\ DATA # task.done.before.DATA
    /\ DATA = DictUpdate(task.done.before.DATA,
                         parse_sw_site(task.done.response.body.text).value)
    /\ META_DATA.last_update = isoformat(task.done.now)

====
